---- MODULE Spec2Model ----
(***************************************************************************)
(* Model of the asset-registry pallet (asset-registry/src/lib.rs): the two *)
(* coupled storage maps Metadata and LocationToAssetId, the extrinsics     *)
(* register_asset and update_asset, the public helpers behind them and the *)
(* two lookups fetch_metadata_by_location and multilocation.               *)
(*                                                                         *)
(* Option<T> is modelled as a sequence of length 0 (None) or 1 (Some(x)).  *)
(* The helpers are operators from a storage value `st` to a record         *)
(* [res, st]: the DispatchResult and the storage as the helper leaves it,  *)
(* so that what a failing helper has already written is visible to the     *)
(* #[transactional] wrapper of the extrinsic, which discards it.           *)
(***************************************************************************)
EXTENDS Naturals, Sequences, FiniteSets

\* ------------------------------------------------------------------ bounds
MaxAssetId == 2
MaxLocation == 2

\* ------------------------------------------------------------ option type
None == <<>>
Some(x) == <<x>>
Option(S) == {None} \cup {Some(x) : x \in S}

\* ------------------------------------------------------------- data model
AssetIds == 1 .. MaxAssetId

\* canonical (current version) MultiLocation values, the keys of the index
MultiLocations == 1 .. MaxLocation

\* VersionedMultiLocation: V1 wraps a canonical location; V0 wraps an old
\* format path, of which path 0 has no current-version equivalent.
VersionedMultiLocations ==
    [v : {"V0"}, x : 0 .. MaxLocation] \cup [v : {"V1"}, x : 1 .. MaxLocation]

\* VersionedMultiLocation -> Result<MultiLocation, ()> (None models Err(()))
TryInto(location) ==
    IF location.v = "V1" THEN Some(location.x)
    ELSE IF location.x \in MultiLocations THEN Some(location.x)
    ELSE None

DecimalsValues == {6, 8}
NameValues == {"USD Coin"}
SymbolValues == {"USDC"}
BalanceValues == {1}
CustomValues == {"c"}

AssetMetadata ==
    [decimals : DecimalsValues, name : NameValues, symbol : SymbolValues,
     existential_deposit : BalanceValues,
     location : Option(VersionedMultiLocations), additional : CustomValues]

Origins == {"Root", "Signed"}

VARIABLES
    Metadata,           \* AssetId -> Option<AssetMetadata>
    LocationToAssetId,  \* MultiLocation -> Option<AssetId>
    events,             \* events deposited by the last extrinsic that remain
    call,               \* the last extrinsic and its arguments
    result,             \* the DispatchResult of the last extrinsic
    trace               \* the steps the last extrinsic took, in order

vars == <<Metadata, LocationToAssetId, events, call, result, trace>>

\* The storage an extrinsic starts from: the two maps, and no event yet
\* deposited by this extrinsic.
Storage ==
    [Metadata |-> Metadata, LocationToAssetId |-> LocationToAssetId,
     events |-> <<>>, trace |-> <<>>]

Ok(st) == [res |-> "Ok", st |-> st]
Err(e, st) == [res |-> e, st |-> st]
\* one more step of the running extrinsic: what was done, and to which key
Step(st, s, k) == [st EXCEPT !.trace = Append(@, [step |-> s, key |-> k])]
\* a step that hands a metadata record on: the record is noted with it
StepArgs(st, s, k, m) ==
    [st EXCEPT !.trace = Append(@, [step |-> s, key |-> k, metadata |-> m])]

\* --------------------------------------------------------------- helpers

\* as RemoveLocation, but the entry stays
RemoveLocation_Noop(st, location) == Step(st, "LocationToAssetId.remove", location)

\* LocationToAssetId::remove as used by do_update_location
RemoveLocation(st, location) ==
    Step([st EXCEPT !.LocationToAssetId[location] = None],
         "LocationToAssetId.remove", location)

\* as LocationVacant, but without the check
LocationVacant_Always(st, location) == TRUE

\* ensure!(maybe_asset_id.is_none(), ConflictingLocation)
LocationVacant(st, location) == st.LocationToAssetId[location] = None

\* as do_insert_location, but a location that does not decode is skipped
do_insert_location_SkipBad(st, asset_id, location) ==
    LET decoded == TryInto(location) IN
    IF decoded = None THEN Ok(Step(st, "decode.fail", 0))
    ELSE IF ~LocationVacant(st, decoded[1])
    THEN Err("ConflictingLocation", Step(st, "LocationToAssetId.conflict", decoded[1]))
    ELSE Ok(Step([st EXCEPT !.LocationToAssetId[decoded[1]] = Some(asset_id)],
                 "LocationToAssetId.insert", decoded[1]))

\* as do_insert_location, but the entry is not written
do_insert_location_NoWrite(st, asset_id, location) ==
    LET decoded == TryInto(location) IN
    IF decoded = None THEN Err("BadVersion", Step(st, "decode.fail", 0))
    ELSE IF ~LocationVacant(st, decoded[1])
    THEN Err("ConflictingLocation", Step(st, "LocationToAssetId.conflict", decoded[1]))
    ELSE Ok(Step(st, "LocationToAssetId.insert", decoded[1]))

do_insert_location(st, asset_id, location) ==
    LET decoded == TryInto(location) IN
    IF decoded = None THEN Err("BadVersion", Step(st, "decode.fail", 0))
    ELSE IF ~LocationVacant(st, decoded[1])
    THEN Err("ConflictingLocation", Step(st, "LocationToAssetId.conflict", decoded[1]))
    ELSE Ok(Step([st EXCEPT !.LocationToAssetId[decoded[1]] = Some(asset_id)],
                 "LocationToAssetId.insert", decoded[1]))

\* as do_update_location, but the new location is never inserted
do_update_location_NoInsert(st, asset_id, old_location, new_location) ==
    IF new_location = old_location THEN Ok(st)
    ELSE IF old_location # None
    THEN LET decoded == TryInto(old_location[1]) IN
         IF decoded = None THEN Err("BadVersion", Step(st, "decode.fail", 0))
         ELSE Ok(RemoveLocation(st, decoded[1]))
    ELSE Ok(st)

\* as do_update_location, but the index is only touched when a new location
\* is given
do_update_location_NoClear(st, asset_id, old_location, new_location) ==
    IF new_location = old_location \/ new_location = None THEN Ok(st)
    ELSE
        LET removed ==
                IF old_location # None
                THEN LET decoded == TryInto(old_location[1]) IN
                     IF decoded = None THEN Err("BadVersion", Step(st, "decode.fail", 0))
                     ELSE Ok(RemoveLocation(st, decoded[1]))
                ELSE Ok(st)
        IN  IF removed.res # "Ok" THEN removed
            ELSE do_insert_location(removed.st, asset_id, new_location[1])

\* as do_update_location, but the new location is inserted before the old
\* one is removed
do_update_location_InsertFirst(st, asset_id, old_location, new_location) ==
    IF new_location = old_location THEN Ok(st)
    ELSE
        LET inserted ==
                IF new_location # None
                THEN do_insert_location(st, asset_id, new_location[1])
                ELSE Ok(st)
        IN  IF inserted.res # "Ok" THEN inserted
            ELSE IF old_location # None
            THEN LET decoded == TryInto(old_location[1]) IN
                 IF decoded = None
                 THEN Err("BadVersion", Step(inserted.st, "decode.fail", 0))
                 ELSE Ok(RemoveLocation(inserted.st, decoded[1]))
            ELSE inserted

do_update_location(st, asset_id, old_location, new_location) ==
    IF new_location = old_location THEN Ok(st)
    ELSE
        LET removed ==
                IF old_location # None
                THEN LET decoded == TryInto(old_location[1]) IN
                     IF decoded = None THEN Err("BadVersion", Step(st, "decode.fail", 0))
                     ELSE Ok(RemoveLocation(st, decoded[1]))
                ELSE Ok(st)
        IN  IF removed.res # "Ok" THEN removed
            ELSE IF new_location # None
            THEN do_insert_location(removed.st, asset_id, new_location[1])
            ELSE removed

\* deposit_event
deposit_event(st, kind, asset_id, metadata) ==
    Step([st EXCEPT !.events =
              Append(@, [kind |-> kind, asset_id |-> asset_id, metadata |-> metadata])],
         "deposit_event", asset_id)

\* as WriteMetadata, but a record without a location is dropped
WriteMetadata_DropUnlocated(st, asset_id, metadata) ==
    Step([st EXCEPT !.Metadata[asset_id] =
              IF metadata.location = None THEN None ELSE Some(metadata)],
         "Metadata.write", asset_id)

\* the write Metadata::try_mutate performs when its closure returns Ok
WriteMetadata(st, asset_id, metadata) ==
    Step([st EXCEPT !.Metadata[asset_id] = Some(metadata)], "Metadata.write", asset_id)

\* as AssetIdVacant, but without the check
AssetIdVacant_Always(st, asset_id) == TRUE

\* ensure!(maybe_metadata.is_none(), ConflictingAssetId)
AssetIdVacant(st, asset_id) == st.Metadata[asset_id] = None

\* as do_register_asset_without_asset_processor, but the event is deposited
\* inside the try_mutate closure, before the record is written
do_register_asset_without_asset_processor_EventFirst(st, metadata, asset_id) ==
    IF ~AssetIdVacant(st, asset_id) THEN Err("ConflictingAssetId", st)
    ELSE
        LET staged == Step(st, "Metadata.stage", asset_id)
            inserted ==
                IF metadata.location # None
                THEN do_insert_location(staged, asset_id, metadata.location[1])
                ELSE Ok(staged)
        IN  IF inserted.res # "Ok" THEN inserted
            ELSE Ok(WriteMetadata(
                    deposit_event(inserted.st, "RegisteredAsset", asset_id, metadata),
                    asset_id, metadata))

do_register_asset_without_asset_processor(st, metadata, asset_id) ==
    IF ~AssetIdVacant(st, asset_id) THEN Err("ConflictingAssetId", st)
    ELSE
        LET staged == Step(st, "Metadata.stage", asset_id)
            inserted ==
                IF metadata.location # None
                THEN do_insert_location(staged, asset_id, metadata.location[1])
                ELSE Ok(staged)
        IN  IF inserted.res # "Ok" THEN inserted
            ELSE Ok(deposit_event(WriteMetadata(inserted.st, asset_id, metadata),
                                  "RegisteredAsset", asset_id, metadata))

\* as do_register_asset, but the result of post_register is not looked at
do_register_asset_PostUnchecked(st, metadata, asset_id, pre, post) ==
    LET st1 == Step(st, "pre_register", 0) IN
    IF pre.res # "Ok" THEN Err("PreRegisterFailed", st1)
    ELSE
        LET r == do_register_asset_without_asset_processor(st1, pre.metadata, pre.asset_id)
        IN  IF r.res # "Ok" THEN r ELSE Ok(StepArgs(r.st, "post_register", pre.asset_id, pre.metadata))

\* as do_register_asset, but the metadata the caller passed is registered and
\* handed to post_register, not the metadata pre_register returned
do_register_asset_CallerArgs(st, metadata, asset_id, pre, post) ==
    LET st1 == Step(st, "pre_register", 0) IN
    IF pre.res # "Ok" THEN Err("PreRegisterFailed", st1)
    ELSE
        LET r == do_register_asset_without_asset_processor(st1, metadata, pre.asset_id)
        IN  IF r.res # "Ok" THEN r
            ELSE LET st2 == StepArgs(r.st, "post_register", pre.asset_id, metadata) IN
                 IF post # "Ok" THEN Err("PostRegisterFailed", st2) ELSE Ok(st2)

\* pre and post are what the configured AssetProcessor returns:
\* pre is Err, or Ok with the final (asset_id, metadata); post is Err or Ok.
do_register_asset(st, metadata, asset_id, pre, post) ==
    LET st1 == Step(st, "pre_register", 0) IN
    IF pre.res # "Ok" THEN Err("PreRegisterFailed", st1)
    ELSE
        LET r == do_register_asset_without_asset_processor(st1, pre.metadata, pre.asset_id)
        IN  IF r.res # "Ok" THEN r
            ELSE LET st2 == StepArgs(r.st, "post_register", pre.asset_id, pre.metadata) IN
                 IF post # "Ok" THEN Err("PostRegisterFailed", st2) ELSE Ok(st2)

\* as ApplyFields, but the symbol is overwritten with the supplied name
ApplyFields_NameToSymbol(metadata, decimals, name, symbol, existential_deposit) ==
    [metadata EXCEPT
        !.decimals = IF decimals # None THEN decimals[1] ELSE @,
        !.name = IF name # None THEN name[1] ELSE @,
        !.symbol = IF name # None THEN name[1] ELSE @,
        !.existential_deposit =
            IF existential_deposit # None THEN existential_deposit[1] ELSE @]

\* the field-wise overwrite of do_update_asset; location is set separately
ApplyFields(metadata, decimals, name, symbol, existential_deposit) ==
    [metadata EXCEPT
        !.decimals = IF decimals # None THEN decimals[1] ELSE @,
        !.name = IF name # None THEN name[1] ELSE @,
        !.symbol = IF symbol # None THEN symbol[1] ELSE @,
        !.existential_deposit =
            IF existential_deposit # None THEN existential_deposit[1] ELSE @]

\* as SetLocation, but the field is left as it is
SetLocation_Noop(metadata, location) == metadata

\* metadata.location = location
SetLocation(metadata, location) == [metadata EXCEPT !.location = location]

\* as do_update_asset, but a missing record is created instead of reported
do_update_asset_Upsert(st, asset_id, decimals, name, symbol, existential_deposit, location, additional) ==
    LET m0 == IF st.Metadata[asset_id] = None
              THEN [decimals |-> 6, name |-> "USD Coin", symbol |-> "USDC",
                    existential_deposit |-> 1, location |-> None, additional |-> "c"]
              ELSE st.Metadata[asset_id][1]
        m1 == ApplyFields(m0, decimals, name, symbol, existential_deposit)
        located ==
            IF location # None
            THEN do_update_location(st, asset_id, m1.location, location[1])
            ELSE Ok(st)
    IN  IF located.res # "Ok" THEN located
        ELSE
            LET m2 == IF location # None THEN SetLocation(m1, location[1]) ELSE m1
                m3 == IF additional # None
                      THEN [m2 EXCEPT !.additional = additional[1]] ELSE m2
            IN  Ok(WriteMetadata(
                    deposit_event(located.st, "UpdatedAsset", asset_id, m3),
                    asset_id, m3))

do_update_asset(st, asset_id, decimals, name, symbol, existential_deposit, location, additional) ==
    IF st.Metadata[asset_id] = None THEN Err("AssetNotFound", st)
    ELSE
        LET m1 == ApplyFields(st.Metadata[asset_id][1], decimals, name, symbol,
                              existential_deposit)
            located ==
                IF location # None
                THEN do_update_location(st, asset_id, m1.location, location[1])
                ELSE Ok(st)
        IN  IF located.res # "Ok" THEN located
            ELSE
                LET m2 == IF location # None THEN SetLocation(m1, location[1]) ELSE m1
                    m3 == IF additional # None
                          THEN [m2 EXCEPT !.additional = additional[1]] ELSE m2
                IN  Ok(WriteMetadata(
                        deposit_event(located.st, "UpdatedAsset", asset_id, m3),
                        asset_id, m3))

\* as ensure_origin, but every origin passes
ensure_origin_Always(origin) == TRUE

\* T::AuthorityOrigin::ensure_origin
ensure_origin(origin) == origin = "Root"

\* as with_transaction, but nothing is rolled back
with_transaction_NoRollback(before, r) == r.st

\* as with_transaction, but the events deposited so far survive a rollback
with_transaction_KeepEvents(before, r) ==
    IF r.res = "Ok" THEN r.st
    ELSE [before EXCEPT !.trace = r.st.trace, !.events = r.st.events]

\* #[transactional]: commit the storage on Ok, roll it back on Err.  The
\* trace is an observation of the run and is kept either way.
with_transaction(before, r) ==
    IF r.res = "Ok" THEN r.st ELSE [before EXCEPT !.trace = r.st.trace]

\* ---------------------------------------------------------------- lookups
fetch_metadata_by_location(location) ==
    IF LocationToAssetId[location] = None THEN None
    ELSE Metadata[LocationToAssetId[location][1]]

\* Result<Option<MultiLocation>, DispatchError>
multilocation(asset_id) ==
    IF Metadata[asset_id] = None THEN [res |-> "Ok", val |-> None]
    ELSE IF Metadata[asset_id][1].location = None THEN [res |-> "Ok", val |-> None]
    ELSE LET decoded == TryInto(Metadata[asset_id][1].location[1]) IN
         IF decoded = None THEN [res |-> "BadVersion", val |-> None]
         ELSE [res |-> "Ok", val |-> decoded]

\* ------------------------------------------------------------- extrinsics
NoUpdate ==
    [decimals |-> None, name |-> None, symbol |-> None,
     existential_deposit |-> None, location |-> None, additional |-> None]

NoPre == [res |-> "Err", asset_id |-> None, metadata |-> None]

NoCall ==
    [op |-> "none", origin |-> "Root", asset_id |-> None, metadata |-> None,
     update |-> NoUpdate, pre |-> NoPre, post |-> "Ok"]

Commit(after, c, res) ==
    /\ Metadata' = after.Metadata
    /\ LocationToAssetId' = after.LocationToAssetId
    /\ events' = after.events
    /\ trace' = after.trace
    /\ call' = c
    /\ result' = res

register_asset(origin, metadata, asset_id, pre, post) ==
    LET c == [op |-> "register_asset", origin |-> origin, asset_id |-> asset_id,
              metadata |-> Some(metadata), update |-> NoUpdate,
              pre |-> pre, post |-> post]
    IN  IF ~ensure_origin(origin) THEN Commit(Storage, c, "BadOrigin")
        ELSE LET r == do_register_asset(Storage, metadata, asset_id, pre, post)
             IN  Commit(with_transaction(Storage, r), c, r.res)

update_asset(origin, asset_id, u) ==
    LET c == [op |-> "update_asset", origin |-> origin, asset_id |-> Some(asset_id),
              metadata |-> None, update |-> u, pre |-> NoPre, post |-> "Ok"]
    IN  IF ~ensure_origin(origin) THEN Commit(Storage, c, "BadOrigin")
        ELSE LET r == do_update_asset(Storage, asset_id, u.decimals, u.name, u.symbol,
                                      u.existential_deposit, u.location, u.additional)
             IN  Commit(with_transaction(Storage, r), c, r.res)

\* ----------------------------------------------------------------- inputs
\* The fields whose value sets are singletons are supplied together or not
\* at all; decimals and location are supplied independently of them.
UpdateArgs ==
    {[decimals |-> d, name |-> n, symbol |-> IF n = None THEN None ELSE Some(sy),
      existential_deposit |-> IF n = None THEN None ELSE Some(e),
      location |-> l, additional |-> IF n = None THEN None ELSE Some(ad)] :
        d \in Option(DecimalsValues), n \in Option(NameValues), sy \in SymbolValues,
        e \in BalanceValues, ad \in CustomValues,
        l \in Option(Option(VersionedMultiLocations))}

\* What pre_register may return for the given metadata: an error, or any
\* asset id together with the metadata, its decimals possibly rewritten.
PreRegisterResults(metadata) ==
    {NoPre} \cup
    {[res |-> "Ok", asset_id |-> id, metadata |-> [metadata EXCEPT !.decimals = d]] :
        id \in AssetIds, d \in DecimalsValues}

\* What post_register may return; it is only called when pre_register was Ok.
PostRegisterResults(pre) == IF pre.res = "Ok" THEN {"Ok", "Err"} ELSE {"Ok"}

Init ==
    /\ Metadata = [id \in AssetIds |-> None]
    /\ LocationToAssetId = [l \in MultiLocations |-> None]
    /\ events = <<>>
    /\ trace = <<>>
    /\ call = NoCall
    /\ result = "Ok"

\* An extrinsic is applied once the record of the previous one is cleared.
RegisterAsset ==
    /\ call = NoCall
    /\ \E origin \in Origins, metadata \in AssetMetadata, asset_id \in Option(AssetIds) :
        \E pre \in PreRegisterResults(metadata) :
            \E post \in PostRegisterResults(pre) :
                register_asset(origin, metadata, asset_id, pre, post)

UpdateAsset ==
    /\ call = NoCall
    /\ \E origin \in Origins, asset_id \in AssetIds, u \in UpdateArgs :
        update_asset(origin, asset_id, u)

\* Between extrinsics the pallet does nothing (its Hooks are empty): the two
\* maps stay as they are; the record of the last extrinsic is cleared.
NextBlock ==
    /\ call # NoCall
    /\ call' = NoCall
    /\ result' = "Ok"
    /\ events' = <<>>
    /\ trace' = <<>>
    /\ UNCHANGED <<Metadata, LocationToAssetId>>

Next == RegisterAsset \/ UpdateAsset \/ NextBlock

Spec == Init /\ [][Next]_vars

\* ------------------------------------------------------------- properties
Steps(s) == {s[i].step : i \in 1 .. Len(s)}
Before(s, a, b) == \E i, j \in 1 .. Len(s) : i < j /\ s[i].step = a /\ s[j].step = b

\* the canonical location of the stored record of id, as an Option
StoredLocation(id) ==
    IF Metadata[id] = None \/ Metadata[id][1].location = None THEN None
    ELSE TryInto(Metadata[id][1].location[1])

\* the step taken is an authorized update_asset call whose hooks ran
UpdateCalled == call'.op = "update_asset" /\ call'.origin = "Root"
\* the step taken is an authorized register_asset call that pre_register let through
RegisterCalled ==
    call'.op = "register_asset" /\ call'.origin = "Root" /\ call'.pre.res = "Ok"

\* C1: in every state, an asset whose stored metadata has a location that
\* decodes to the canonical location L is the asset LocationToAssetId[L] names.
C1_LocationIndexed ==
    \A id \in AssetIds :
        StoredLocation(id) # None =>
            LocationToAssetId[StoredLocation(id)[1]] = Some(id)

\* C1 witness: an asset holds a location after an update that changed a
\* location went through, and another after a call failed.
C1_Witness ==
    /\ call.op = "update_asset" /\ result = "Ok"
    /\ "LocationToAssetId.remove" \in Steps(trace)
    /\ "LocationToAssetId.insert" \in Steps(trace)
    /\ \A id \in AssetIds : StoredLocation(id) # None

\* C2: in every state, every entry L -> id of LocationToAssetId belongs to a
\* stored record of id whose location is present and decodes to L.
C2_NoOrphanIndexEntry ==
    \A l \in MultiLocations :
        LocationToAssetId[l] # None =>
            StoredLocation(LocationToAssetId[l][1]) = Some(l)

\* C2 witness: an update removed an index entry (a change or a clear of the
\* location) and committed, while the index still has an entry.
C2_Witness ==
    /\ call.op = "update_asset" /\ result = "Ok"
    /\ "LocationToAssetId.remove" \in Steps(trace)
    /\ \E l \in MultiLocations : LocationToAssetId[l] # None

\* C3: an update of asset A, which holds L1, to a location L2 held by another
\* asset B fails with ConflictingLocation and leaves A's record, L1 -> A and
\* L2 -> B as they were, although L1 was removed before the insert was tried.
C3_MigrationConflictRolledBack ==
    [][UpdateCalled =>
       \A a \in AssetIds, b \in AssetIds, v \in VersionedMultiLocations :
        ( /\ a # b
          /\ call'.asset_id = Some(a)
          /\ call'.update.location = Some(Some(v))
          /\ StoredLocation(a) # None
          /\ TryInto(v) # None
          /\ LocationToAssetId[TryInto(v)[1]] = Some(b) )
        => ( /\ result' = "ConflictingLocation"
             /\ Metadata'[a] = Metadata[a]
             /\ LocationToAssetId'[StoredLocation(a)[1]] = Some(a)
             /\ LocationToAssetId'[TryInto(v)[1]] = Some(b)
             /\ Before(trace', "LocationToAssetId.remove", "LocationToAssetId.conflict") )
      ]_vars

\* C3 witness: an update failed with ConflictingLocation after it had removed
\* the index entry of the old location.
C3_Witness ==
    /\ call.op = "update_asset" /\ result = "ConflictingLocation"
    /\ Before(trace, "LocationToAssetId.remove", "LocationToAssetId.conflict")
    /\ \A id \in AssetIds : StoredLocation(id) # None

\* C4: when post_register returns an error, the registration is rolled back:
\* both maps are as before the call, the id has no record, its location no
\* index entry, and no RegisteredAsset event remains.
C4_PostRegisterFailureRolledBack ==
    [][( /\ RegisterCalled
         /\ "post_register" \in Steps(trace')
         /\ call'.post = "Err" )
        => ( /\ result' = "PostRegisterFailed"
             /\ Metadata' = Metadata
             /\ LocationToAssetId' = LocationToAssetId
             /\ Metadata'[call'.pre.asset_id] = None
             /\ \A l \in MultiLocations :
                    LocationToAssetId'[l] # Some(call'.pre.asset_id)
             /\ events' = <<>> )
      ]_vars

\* C4 witness: post_register failed after the record, the index entry and the
\* event had been written.
C4_Witness ==
    /\ call.op = "register_asset" /\ result = "PostRegisterFailed"
    /\ Before(trace, "LocationToAssetId.insert", "post_register")
    /\ Before(trace, "Metadata.write", "post_register")
    /\ Before(trace, "deposit_event", "post_register")

\* C5: registering, under an id that has no record, metadata whose location
\* cannot be decoded returns BadVersion and leaves no Metadata entry and no
\* LocationToAssetId entry for the id; the record was staged before the decode.
C5_UndecodableRegistrationRolledBack ==
    [][( /\ RegisterCalled
         /\ Metadata[call'.pre.asset_id] = None
         /\ call'.pre.metadata.location # None
         /\ TryInto(call'.pre.metadata.location[1]) = None )
        => ( /\ result' = "BadVersion"
             /\ Metadata'[call'.pre.asset_id] = None
             /\ \A l \in MultiLocations :
                    LocationToAssetId'[l] # Some(call'.pre.asset_id)
             /\ Before(trace', "Metadata.stage", "decode.fail") )
      ]_vars

\* C5 witness: a registration failed with BadVersion after staging the record.
C5_Witness ==
    /\ call.op = "register_asset" /\ result = "BadVersion"
    /\ Before(trace, "Metadata.stage", "decode.fail")

\* C6: registering an id that already has a record fails with
\* ConflictingAssetId and leaves Metadata and LocationToAssetId unchanged.
C6_DuplicateIdRejected ==
    [][( /\ RegisterCalled
         /\ Metadata[call'.pre.asset_id] # None )
        => ( /\ result' = "ConflictingAssetId"
             /\ Metadata' = Metadata
             /\ LocationToAssetId' = LocationToAssetId )
      ]_vars

\* C6 witness: a registration failed with ConflictingAssetId although it
\* carried a decodable location that no asset held.
C6_Witness ==
    /\ call.op = "register_asset" /\ result = "ConflictingAssetId"
    /\ call.pre.metadata.location # None
    /\ TryInto(call.pre.metadata.location[1]) # None
    /\ LocationToAssetId[TryInto(call.pre.metadata.location[1])[1]] = None
    /\ Metadata[call.pre.asset_id] # None
    /\ Metadata[call.pre.asset_id][1] # call.pre.metadata

\* C7: registering, under an id b without a record, metadata whose location
\* decodes to a location held by another asset a fails with ConflictingLocation;
\* a's record and index entry are as before and b gets no record.
C7_DuplicateLocationRejected ==
    [][RegisterCalled =>
       \A a \in AssetIds :
        ( /\ call'.pre.asset_id # a
          /\ Metadata[call'.pre.asset_id] = None
          /\ call'.pre.metadata.location # None
          /\ TryInto(call'.pre.metadata.location[1]) # None
          /\ LocationToAssetId[TryInto(call'.pre.metadata.location[1])[1]] = Some(a) )
        => ( /\ result' = "ConflictingLocation"
             /\ Metadata'[a] = Metadata[a]
             /\ LocationToAssetId'[TryInto(call'.pre.metadata.location[1])[1]] = Some(a)
             /\ Metadata'[call'.pre.asset_id] = None )
      ]_vars

\* C7 witness: a registration under a fresh id failed with ConflictingLocation,
\* the location being held by an asset that stores another encoding of it.
C7_Witness ==
    /\ call.op = "register_asset" /\ result = "ConflictingLocation"
    /\ Metadata[call.pre.asset_id] = None
    /\ \E a \in AssetIds :
        /\ StoredLocation(a) = TryInto(call.pre.metadata.location[1])
        /\ Metadata[a][1].location # call.pre.metadata.location

\* C8: a record that is present is present in the next state, whatever the
\* call and whether it succeeds or fails.
C8_RecordNeverRemoved ==
    [][\A id \in AssetIds : Metadata[id] # None => Metadata'[id] # None]_vars

\* C8 witness: the record of an asset is there after an update cleared its
\* location.
C8_Witness ==
    /\ call.op = "update_asset" /\ result = "Ok"
    /\ call.update.location = Some(None)
    /\ "LocationToAssetId.remove" \in Steps(trace)
    /\ Metadata[call.asset_id[1]] # None

\* C9: after a successful registration of metadata with a location under id A,
\* fetch_metadata_by_location of the canonical location returns that metadata
\* and multilocation(A) returns Ok(Some(canonical location)).
C9_RegisterRoundTrip ==
    ( /\ call.op = "register_asset" /\ result = "Ok"
      /\ call.pre.metadata.location # None )
    => LET l == TryInto(call.pre.metadata.location[1]) IN
       /\ l # None
       /\ fetch_metadata_by_location(l[1]) = Some(call.pre.metadata)
       /\ multilocation(call.pre.asset_id) = [res |-> "Ok", val |-> l]

\* C9 witness: a registration with an old-format location succeeded while
\* another asset was registered.
C9_Witness ==
    /\ call.op = "register_asset" /\ result = "Ok"
    /\ call.pre.metadata.location # None
    /\ call.pre.metadata.location[1].v = "V0"
    /\ \A id \in AssetIds : Metadata[id] # None

\* C10: an update of asset A, which holds L1, to a decodable location L2 that
\* no asset holds succeeds; afterwards L1 is not indexed
\* (fetch_metadata_by_location(L1) is None), LocationToAssetId[L2] is A and
\* A's stored location is the new one.
C10_MigrationSucceeds ==
    [][UpdateCalled =>
       \A a \in AssetIds, l1 \in MultiLocations, v \in VersionedMultiLocations :
        ( /\ call'.asset_id = Some(a)
          /\ call'.update.location = Some(Some(v))
          /\ StoredLocation(a) = Some(l1)
          /\ TryInto(v) # None
          /\ LocationToAssetId[TryInto(v)[1]] = None )
        => ( /\ result' = "Ok"
             /\ LocationToAssetId'[l1] = None
             /\ fetch_metadata_by_location(l1)' = None
             /\ LocationToAssetId'[TryInto(v)[1]] = Some(a)
             /\ Metadata'[a][1].location = Some(v)
             /\ StoredLocation(a)' = TryInto(v) )
      ]_vars

\* C10 witness: an update removed the entry of one location and inserted the
\* entry of another, and committed.
C10_Witness ==
    /\ call.op = "update_asset" /\ result = "Ok"
    /\ \E i, j \in 1 .. Len(trace) :
        /\ i < j
        /\ trace[i].step = "LocationToAssetId.remove"
        /\ trace[j].step = "LocationToAssetId.insert"
        /\ trace[i].key # trace[j].key

\* C11: an update of asset A, which holds L, that supplies only
\* location = Some(None) succeeds and removes A's index entry: afterwards
\* fetch_metadata_by_location(L) is None, multilocation(A) is Ok(None), and the
\* record of A is the old one with its location cleared.
C11_ClearLocation ==
    [][UpdateCalled =>
       \A a \in AssetIds, l \in MultiLocations :
        ( /\ call'.asset_id = Some(a)
          /\ call'.update = [NoUpdate EXCEPT !.location = Some(None)]
          /\ StoredLocation(a) = Some(l) )
        => ( /\ result' = "Ok"
             /\ LocationToAssetId'[l] = None
             /\ fetch_metadata_by_location(l)' = None
             /\ multilocation(a)' = [res |-> "Ok", val |-> None]
             /\ Metadata'[a] = Some([Metadata[a][1] EXCEPT !.location = None]) )
      ]_vars

\* C11 witness: an update that supplied only location = Some(None) removed an
\* index entry and committed, the record still being there.
C11_Witness ==
    /\ call.op = "update_asset" /\ result = "Ok"
    /\ call.update = [NoUpdate EXCEPT !.location = Some(None)]
    /\ "LocationToAssetId.remove" \in Steps(trace)
    /\ Metadata[call.asset_id[1]] # None
    /\ Metadata[call.asset_id[1]][1].location = None

\* ------------------------------------------- field updates (SpecFields)
\* A second specification for the fields other than the location: every
\* field has two values, an update supplies any subset of them and no
\* location, and the records it meets are registered from two templates.
WideNameValues == {"USD Coin", "Tether USD"}
WideSymbolValues == {"USDC", "USDT"}
WideBalanceValues == {1, 2}
WideCustomValues == {"c", "d"}

FieldMetadata ==
    UNION {
        {[decimals |-> 6, name |-> "USD Coin", symbol |-> "USDC",
          existential_deposit |-> 1, location |-> l, additional |-> "c"],
         [decimals |-> 8, name |-> "Tether USD", symbol |-> "USDT",
          existential_deposit |-> 2, location |-> l, additional |-> "d"]} :
        l \in Option([v : {"V1"}, x : MultiLocations]) }

FieldUpdateArgs ==
    [decimals : Option(DecimalsValues), name : Option(WideNameValues),
     symbol : Option(WideSymbolValues),
     existential_deposit : Option(WideBalanceValues),
     location : {None}, additional : Option(WideCustomValues)]

RegisterAssetFields ==
    /\ call = NoCall
    /\ \E metadata \in FieldMetadata, id \in AssetIds :
        register_asset("Root", metadata, Some(id),
                       [res |-> "Ok", asset_id |-> id, metadata |-> metadata], "Ok")

UpdateAssetFields ==
    /\ call = NoCall
    /\ \E asset_id \in AssetIds, u \in FieldUpdateArgs :
        update_asset("Root", asset_id, u)

\* the run goes on after a registration; it ends with the update
NextBlockFields == call.op = "register_asset" /\ NextBlock

NextFields == RegisterAssetFields \/ UpdateAssetFields \/ NextBlockFields

SpecFields == Init /\ [][NextFields]_vars

\* C12: an update of an existing asset A that supplies no location succeeds
\* and leaves A's record equal to the old one with exactly the supplied fields
\* overwritten; the fields not supplied, the location, LocationToAssetId and
\* the records of the other assets are unchanged.
C12_PartialUpdateFrame ==
    [][UpdateCalled =>
       \A a \in AssetIds :
        ( /\ call'.asset_id = Some(a)
          /\ call'.update.location = None
          /\ Metadata[a] # None )
        => ( /\ result' = "Ok"
             /\ Metadata'[a] # None
             /\ Metadata'[a][1].decimals =
                    IF call'.update.decimals = None THEN Metadata[a][1].decimals
                    ELSE call'.update.decimals[1]
             /\ Metadata'[a][1].name =
                    IF call'.update.name = None THEN Metadata[a][1].name
                    ELSE call'.update.name[1]
             /\ Metadata'[a][1].symbol =
                    IF call'.update.symbol = None THEN Metadata[a][1].symbol
                    ELSE call'.update.symbol[1]
             /\ Metadata'[a][1].existential_deposit =
                    IF call'.update.existential_deposit = None
                    THEN Metadata[a][1].existential_deposit
                    ELSE call'.update.existential_deposit[1]
             /\ Metadata'[a][1].additional =
                    IF call'.update.additional = None THEN Metadata[a][1].additional
                    ELSE call'.update.additional[1]
             /\ Metadata'[a][1].location = Metadata[a][1].location
             /\ (call'.update = NoUpdate => Metadata'[a] = Metadata[a])
             /\ LocationToAssetId' = LocationToAssetId
             /\ \A b \in AssetIds \ {a} : Metadata'[b] = Metadata[b] )
      ]_vars

\* C12 witness: an update that supplied the name and the additional data, and
\* nothing else, committed on an asset that holds a location, every asset
\* being registered; the record has the new name and the old symbol.
C12_Witness ==
    /\ call.op = "update_asset" /\ result = "Ok"
    /\ call.update.name = Some("Tether USD")
    /\ call.update.additional = Some("d")
    /\ call.update.decimals = None /\ call.update.symbol = None
    /\ call.update.existential_deposit = None /\ call.update.location = None
    /\ \A id \in AssetIds : Metadata[id] # None
    /\ Metadata[call.asset_id[1]][1].location # None
    /\ Metadata[call.asset_id[1]][1].name = "Tether USD"
    /\ Metadata[call.asset_id[1]][1].symbol = "USDC"

\* C13: an update of an asset id that has no record fails with AssetNotFound,
\* whatever fields it supplies: no record is created, Metadata and
\* LocationToAssetId are unchanged and no event is deposited.
C13_UpdateOfMissingAsset ==
    [][UpdateCalled =>
       \A a \in AssetIds :
        ( /\ call'.asset_id = Some(a)
          /\ Metadata[a] = None )
        => ( /\ result' = "AssetNotFound"
             /\ Metadata'[a] = None
             /\ Metadata' = Metadata
             /\ LocationToAssetId' = LocationToAssetId
             /\ events' = <<>> )
      ]_vars

\* C13 witness: an update that supplied a decodable location no asset holds,
\* and other fields, failed with AssetNotFound while another asset existed.
C13_Witness ==
    /\ call.op = "update_asset" /\ result = "AssetNotFound"
    /\ call.update.location # None /\ call.update.location[1] # None
    /\ TryInto(call.update.location[1][1]) # None
    /\ LocationToAssetId[TryInto(call.update.location[1][1])[1]] = None
    /\ call.update.decimals # None /\ call.update.name # None
    /\ \E id \in AssetIds : Metadata[id] # None

\* C14: a register_asset or update_asset call from an origin the authority
\* check rejects fails before anything happens: Metadata and
\* LocationToAssetId are unchanged, no event is deposited and neither
\* pre_register nor post_register is called.
C14_UnauthorizedCallChangesNothing ==
    [][( /\ call'.op \in {"register_asset", "update_asset"}
         /\ call'.origin = "Signed" )
        => ( /\ result' = "BadOrigin"
             /\ Metadata' = Metadata
             /\ LocationToAssetId' = LocationToAssetId
             /\ events' = <<>>
             /\ "pre_register" \notin Steps(trace')
             /\ "post_register" \notin Steps(trace')
             /\ trace' = <<>> )
      ]_vars

\* C14 witness: a registration that the hooks accept, under an id without a
\* record and with a decodable location no asset holds, was rejected for its
\* origin.
C14_Witness ==
    /\ call.op = "register_asset" /\ result = "BadOrigin"
    /\ call.origin = "Signed"
    /\ call.pre.res = "Ok" /\ call.post = "Ok"
    /\ Metadata[call.pre.asset_id] = None
    /\ call.pre.metadata.location # None
    /\ TryInto(call.pre.metadata.location[1]) # None
    /\ LocationToAssetId[TryInto(call.pre.metadata.location[1])[1]] = None

\* C15: after a register_asset or update_asset call that returned an error no
\* event of the call remains; after one that succeeded exactly one event
\* remains, RegisteredAsset for register_asset and UpdatedAsset for
\* update_asset, which names the asset of the call and carries the record
\* stored in Metadata for it.
C15_EventsMatchCommits ==
    call.op \in {"register_asset", "update_asset"} =>
        IF result = "Ok"
        THEN /\ Len(events) = 1
             /\ events[1].kind =
                    IF call.op = "register_asset" THEN "RegisteredAsset"
                    ELSE "UpdatedAsset"
             /\ events[1].asset_id =
                    IF call.op = "register_asset" THEN call.pre.asset_id
                    ELSE call.asset_id[1]
             /\ Metadata[events[1].asset_id] = Some(events[1].metadata)
        ELSE events = <<>>

\* C15 witness: an update that changed the decimals and moved the location
\* committed and left its event.
C15_Witness ==
    /\ call.op = "update_asset" /\ result = "Ok"
    /\ call.update.decimals # None
    /\ Before(trace, "LocationToAssetId.remove", "LocationToAssetId.insert")
    /\ Len(events) = 1
    /\ events[1].metadata.decimals = call.update.decimals[1]
    /\ events[1].metadata.location = call.update.location[1]

\* C16: an authorized registration stores what pre_register returned: when it
\* succeeds, the record in Metadata, the entry in LocationToAssetId, the
\* RegisteredAsset event and the arguments of post_register are the
\* (asset id, metadata) pair pre_register returned; when pre_register returns
\* an error, nothing is written, no event is deposited and post_register is
\* not called.
C16_RegistersWhatPreRegisterReturns ==
    [][( /\ call'.op = "register_asset"
         /\ call'.origin = "Root" )
        => ( /\ call'.pre.res # "Ok" =>
                    /\ result' = "PreRegisterFailed"
                    /\ Metadata' = Metadata
                    /\ LocationToAssetId' = LocationToAssetId
                    /\ events' = <<>>
                    /\ Steps(trace') = {"pre_register"}
             /\ (call'.pre.res = "Ok" /\ result' = "Ok") =>
                    /\ Metadata[call'.pre.asset_id] = None
                    /\ Metadata'[call'.pre.asset_id] = Some(call'.pre.metadata)
                    /\ \A id \in AssetIds \ {call'.pre.asset_id} :
                            Metadata'[id] = Metadata[id]
                    /\ call'.pre.metadata.location # None =>
                            LocationToAssetId'[TryInto(call'.pre.metadata.location[1])[1]]
                                = Some(call'.pre.asset_id)
                    /\ events' = << [kind |-> "RegisteredAsset",
                                     asset_id |-> call'.pre.asset_id,
                                     metadata |-> call'.pre.metadata] >>
                    /\ \E i \in 1 .. Len(trace') :
                            /\ trace'[i].step = "post_register"
                            /\ trace'[i].key = call'.pre.asset_id
                            /\ trace'[i].metadata = call'.pre.metadata )
      ]_vars

\* C16 witness: a registration succeeded for which pre_register returned an id
\* and a metadata record other than the ones the caller passed.
C16_Witness ==
    /\ call.op = "register_asset" /\ result = "Ok"
    /\ call.asset_id # None
    /\ call.asset_id # Some(call.pre.asset_id)
    /\ call.metadata # Some(call.pre.metadata)
    /\ call.pre.metadata.location # None
    /\ Metadata[call.asset_id[1]] = None

\* C17: in a successful registration pre_register is called before anything
\* is written to Metadata or LocationToAssetId, both writes are done before
\* the RegisteredAsset event is deposited, and the event is deposited before
\* post_register is called.
C17_RegistrationOrder ==
    (call.op = "register_asset" /\ result = "Ok") =>
        \E p, e, q \in 1 .. Len(trace) :
            /\ trace[p].step = "pre_register"
            /\ trace[e].step = "deposit_event"
            /\ trace[q].step = "post_register"
            /\ p < e /\ e < q
            /\ \E w \in 1 .. Len(trace) : trace[w].step = "Metadata.write"
            /\ call.pre.metadata.location # None =>
                   \E w \in 1 .. Len(trace) : trace[w].step = "LocationToAssetId.insert"
            /\ \A w \in 1 .. Len(trace) :
                   trace[w].step \in {"Metadata.write", "LocationToAssetId.insert",
                                      "LocationToAssetId.remove"}
                       => (p < w /\ w < e)
            /\ \A i \in 1 .. Len(trace) :
                   /\ trace[i].step = "pre_register" => i = p
                   /\ trace[i].step = "deposit_event" => i = e
                   /\ trace[i].step = "post_register" => i = q

\* C17 witness: a registration with a location succeeded, having written the
\* index entry and the record, deposited the event and called both hooks.
C17_Witness ==
    /\ call.op = "register_asset" /\ result = "Ok"
    /\ Len(trace) = 6
    /\ {"pre_register", "LocationToAssetId.insert", "Metadata.write",
        "deposit_event", "post_register"} \subseteq Steps(trace)

\* C18: an update of asset A, which holds L, to a location value that decodes
\* to L (the stored value itself or another encoding of L) succeeds, and
\* LocationToAssetId[L] is A afterwards.
C18_SameCanonicalLocation ==
    [][UpdateCalled =>
       \A a \in AssetIds, l \in MultiLocations, v \in VersionedMultiLocations :
        ( /\ call'.asset_id = Some(a)
          /\ call'.update.location = Some(Some(v))
          /\ StoredLocation(a) = Some(l)
          /\ TryInto(v) = Some(l) )
        => ( /\ result' = "Ok"
             /\ LocationToAssetId'[l] = Some(a)
             /\ Metadata'[a][1].location = Some(v) )
      ]_vars

\* C18 witness: an update replaced the stored location by another encoding of
\* the same canonical location, removing and inserting the same index entry.
C18_Witness ==
    /\ call.op = "update_asset" /\ result = "Ok"
    /\ \E i, j \in 1 .. Len(trace) :
        /\ i < j
        /\ trace[i].step = "LocationToAssetId.remove"
        /\ trace[j].step = "LocationToAssetId.insert"
        /\ trace[i].key = trace[j].key
        /\ LocationToAssetId[trace[j].key] = call.asset_id

\* ------------------------------------- the helper called directly (SpecHelpers)
\* do_update_asset is a public function of the pallet: other runtime code can
\* call it outside the #[transactional] wrapper of update_asset.  The storage
\* is then left as the helper leaves it, whatever it returns.
DoUpdateAsset ==
    /\ call = NoCall
    /\ \E asset_id \in AssetIds, u \in UpdateArgs :
        LET c == [op |-> "do_update_asset", origin |-> "Root",
                  asset_id |-> Some(asset_id), metadata |-> None, update |-> u,
                  pre |-> NoPre, post |-> "Ok"]
            r == do_update_asset(Storage, asset_id, u.decimals, u.name, u.symbol,
                                 u.existential_deposit, u.location, u.additional)
        IN  Commit(r.st, c, r.res)

NextHelpers == RegisterAsset \/ UpdateAsset \/ NextBlock \/ DoUpdateAsset

SpecHelpers == Init /\ [][NextHelpers]_vars

\* C19: whenever do_update_asset, called by itself, returns an error
\* (AssetNotFound, BadVersion or ConflictingLocation), Metadata and
\* LocationToAssetId are as they were before the call, the index entry of the
\* old location included.
C19_HelperAllOrNothing ==
    [][( /\ call'.op = "do_update_asset"
         /\ result' \in {"AssetNotFound", "BadVersion", "ConflictingLocation"} )
        => ( /\ Metadata' = Metadata
             /\ LocationToAssetId' = LocationToAssetId )
      ]_vars

\* C20: every location stored in a record decodes: in every state
\* multilocation(id) returns Ok for every id, and an authorized update whose
\* new location is absent, None or decodable never fails with BadVersion,
\* that is, never because of the location already stored.
C20_StoredLocationsDecode ==
    /\ [](\A id \in AssetIds :
            /\ multilocation(id).res = "Ok"
            /\ (Metadata[id] # None /\ Metadata[id][1].location # None)
                   => TryInto(Metadata[id][1].location[1]) # None)
    /\ [][( /\ UpdateCalled
            /\ \/ call'.update.location \in {None, Some(None)}
               \/ TryInto(call'.update.location[1][1]) # None )
          => ( /\ result' # "BadVersion"
               /\ "decode.fail" \notin Steps(trace') )
        ]_vars

\* C20 witness: an update moved an asset whose new location is stored in the
\* old format from one canonical location to another; every asset is
\* registered and multilocation returns Ok for each, a location for the moved.
C20_Witness ==
    /\ call.op = "update_asset" /\ result = "Ok"
    /\ \E i, j \in 1 .. Len(trace) :
        /\ i < j
        /\ trace[i].step = "LocationToAssetId.remove"
        /\ trace[j].step = "LocationToAssetId.insert"
        /\ trace[i].key # trace[j].key
    /\ Metadata[call.asset_id[1]][1].location[1].v = "V0"
    /\ multilocation(call.asset_id[1]).val # None
    /\ \A id \in AssetIds : Metadata[id] # None /\ multilocation(id).res = "Ok"

====
